---- MODULE Spec2Model ----
(***************************************************************************)
(* Model of the platform Thermostat of homebridge-thermostat               *)
(* (src/src/platformAccessory.ts, lines 23-484): the in-memory state       *)
(* record, the relay pin, the redis store behind setState/getState, the    *)
(* periodic tick, the remote temperature request and the control           *)
(* evaluation handleCurrentTemperature with its compressor guard.          *)
(*                                                                         *)
(* Temperatures are integers in units of 1/90 degree Celsius, so that the  *)
(* thresholds 1*5/9, 2*5/9 and 3*5/9 and readings with one decimal are     *)
(* exact.  Instants are integers in clock ticks, TicksPerSecond ticks to   *)
(* the second; a LastOff string holds whole seconds (moment().toString()   *)
(* prints no milliseconds).                                                *)
(***************************************************************************)
EXTENDS Integers, Sequences, FiniteSets, TLC

VARIABLES
    state,        \* this.state, the in-memory record
    pin,          \* level of the relay pin (rpio): 0 low, 1 high
    now,          \* the wall clock, in ticks
    timer,        \* the instant setInterval was armed or its callback last ran
    phase,        \* "connecting" | "running" | "crashed"
    fault,        \* what ended the process: "none" or the callback that threw
    store,        \* the value under the redis key 'State', or NoRecord
    storeQ,       \* the last write of 'State' queued while the client is
                  \* offline, or NoRecord
    early,        \* number of writes submitted before the startup load ended
    reply,        \* the reply to client.get('State') not yet delivered, or NoReply
    uniqueId,     \* this.uniqueId: NoId until a catalog scan matched
    remoteQ,      \* number of remote requests in flight, of the catalog and by id
    ev,           \* what the control evaluation of the last step read and did
    lastLowWrite, \* <<t>>: the latest HIGH -> LOW write of the pin was at t
    redis,        \* how the server answers a write: "ok", or "rejecting" while
                  \* it answers with an error (MISCONF, READONLY, OOM)
    rejected,     \* redis rejected the writes of 'State' of the last step and
                  \* the promise of client.set has not been rejected yet
    call,         \* the partial record a caller is about to hand to setState,
                  \* or NoCall
    authorization,\* this.authorization: NoToken until getAuthorization set it
    authKey,      \* the value under the redis key 'Authorization', with the
                  \* instant its EX lets it expire
    authQ,        \* the request of getAuthorization that is outstanding
    bearer,       \* what the latest remote request carried as bearer token:
                  \* "none" before the first request of the process
    shown,        \* the value the CurrentTemperature characteristic holds
    got,          \* the request of the framework the process answered last:
                  \* the handler, the value it was about and the value
                  \* returned
    touched,      \* the fields a setter of this process has set while its
                  \* startup load had not ended
    localLastOff  \* this.lastOff of the AccessoryPlugin Thermostat, the
                  \* instant itself: a field of the object, not of this.state

authVars == <<authorization, authKey, authQ, bearer>>

vars == <<state, pin, now, timer, phase, fault, store, storeQ, early, reply,
          uniqueId, remoteQ, ev, lastLowWrite, redis, rejected, call,
          authorization, authKey, authQ, bearer, shown, got,
          touched, localLastOff>>

----------------------------------------------------------------------------
(* Bounds of the model *)

TicksPerSecond == 2
MaxPeriods == 1
MaxEarly == 3
MaxRemote == 2

(* Program constants *)

\* 1 * 5/9 degree Celsius, in units of 1/90 degree
FiveNinths == 50
\* a default of state.LastOff that names the origin of the clock, the start
\* of the process, instead of the year 0: the first run of C28 tells the two
\* apart
DefaultLastOffAtStart == 0 \div TicksPerSecond
\* the default of state.LastOff, the start of year 0: in seconds, long before
\* the clock's origin
DefaultLastOff == -1000000
\* the default of the temperature fields: 25 degrees
DefaultTemperature == 2250
\* 22 degrees, the setpoint the readings of the model lie around
Setpoint == 1980

\* minGetTemp and maxGetTemp of setProps under Celsius display, in degrees
MinGetTemp == -20
MaxGetTemp == 60
\* one degree Celsius and one degree Fahrenheit, in units of 1/90 degree
\* Celsius
Celsius == (9 * FiveNinths) \div 5
Fahrenheit == FiveNinths

Minute == 60 * TicksPerSecond
FourMinutes == 4 * Minute

NoRecord == [absent |-> TRUE]
NoReply == [pending |-> FALSE]
NoRequests == [catalog |-> 0, byId |-> 0]
NoCall == [none |-> TRUE]
\* the value of the CurrentTemperature characteristic no update has set yet
NotPushed == -2
NoToken == [kind |-> "none"]
\* the body of an error response parsed as if it were the token: it has no
\* access_token and no expires_in
NotAToken == [kind |-> "error"]
NoAuthIO == [op |-> "none"]
\* the expires_in of the tokens the remote service hands out
TokenLife == Minute
NoGot == [by |-> "none"]
NoId == "none"
SensorId == "uid1"

\* the instants at which something may happen: the origin, the first minute,
\* the multiples of four minutes and the tick after each
Instants ==
    {0, 1, Minute} \cup {m * FourMinutes + j : m \in 1..MaxPeriods, j \in {0, 1}}
\* the instants of a single evaluation: those, and the tick before each
\* multiple of four minutes
EvalInstants == Instants \cup {m * FourMinutes - 1 : m \in 1..MaxPeriods}

\* TargetHeatingCoolingState values a record may hold: Off, Heat, Cool, Auto
\* and a value outside the enumeration
Modes == 0..4
\* the values the framework hands to the setter: the validValues of setProps
ValidModes == 0..2
TargetTemps == {Setpoint, DefaultTemperature}
\* what ds18b20.temperatureSync returns for a reading whose checksum line
\* says NO: the value false, written here as a number no sensor returns
ReadingFalse == -1
\* readings of the local sensor
SensorTemps == {Setpoint - FiveNinths, Setpoint + 3 * FiveNinths}
\* current temperatures of a single evaluation: on, next to and between the
\* thresholds
EvalTemps ==
    {Setpoint + s * (k * FiveNinths - e) : s \in {-1, 1}, k \in 0..3, e \in {0, 1}}
        \cup {DefaultTemperature}
\* the temperatures a field of the record may hold within the props of the
\* CurrentTemperature characteristic, every 1/90 degree; the two numbers that
\* stand for values that are not temperatures are left out
StoredTemps ==
    ((MinGetTemp * Celsius)..(MaxGetTemp * Celsius)) \ {ReadingFalse, NotPushed}
\* LastOff strings of a single evaluation
EvalLastOffs == {DefaultLastOff} \cup {t \div TicksPerSecond : t \in Instants}

----------------------------------------------------------------------------
(* Pure helpers *)

\* moment().toString(): 'ddd MMM DD YYYY HH:mm:ss [GMT]ZZ', whole seconds
MomentToString(t) == t \div TicksPerSecond

\* moment(string): the instant the string names
MomentParse(s) == s * TicksPerSecond

\* compressorDelay with isSameOrAfter for isAfter: the boundary of C6 tells
\* the two apart
compressorDelaySameOrAfter(lastOff, t) ==
    LET fourMinutesAgo == t - FourMinutes
    IN  MomentParse(lastOff) >= fourMinutesAgo

compressorDelay(lastOff, t) ==
    LET fourMinutesAgo == t - FourMinutes
    IN  MomentParse(lastOff) > fourMinutesAgo

\* the number a value is in a subtraction or a comparison: false is 0
ToNumber(v) == IF v = ReadingFalse THEN 0 ELSE v

DefaultState ==
    [ CoolingThresholdTemperature |-> DefaultTemperature,
      CurrentHeatingCoolingState  |-> 0,
      CurrentTemperature          |-> DefaultTemperature,
      HeatingThresholdTemperature |-> DefaultTemperature,
      LastOff                     |-> DefaultLastOff,
      TargetHeatingCoolingState   |-> 0,
      TargetTemperature           |-> DefaultTemperature,
      TemperatureDisplayUnits     |-> 0 ]

\* setState that lays the partial over the defaults, dropping the record in
\* memory: the frame of C24 tells the two apart
MergeOntoDefaults(st, partial) == partial @@ DefaultState

\* the multiple of step below x
MathFloor(x, step) == step * (x \div step)

\* Math.round of x counted in steps: the nearest multiple of step, the one
\* above on a tie
MathRound(x, step) == step * ((2 * x + step) \div (2 * step))

\* a conversion half a degree Fahrenheit off, no longer the inverse of
\* fahrenheitToCelsius: the idempotence of C23 tells the two apart
celsiusToFahrenheitOffset(temperature) ==
    temperature + 32 * Fahrenheit + Fahrenheit \div 2

\* temperature * 1.8 + 32: a temperature of c units of 1/90 degree Celsius is
\* c / 50 + 32 degrees Fahrenheit, c + 32 * 50 units of 1/50 degree Fahrenheit
celsiusToFahrenheit(temperature) == temperature + 32 * Fahrenheit

\* (temperature - 32) / 1.8, from units of 1/50 degree Fahrenheit
fahrenheitToCelsius(temperature) == temperature - 32 * Fahrenheit

\* await this.getTemperatureDisplayUnits() === FAHRENHEIT
usesFahrenheit(st) == st.TemperatureDisplayUnits = 1

\* this.usesFahrenheit() with no await: the promise the async method returns,
\* an object, whatever it resolves to
UnawaitedIsTruthy(st) == TRUE

\* unroundTemperature(value) on the record st: the first test awaits
\* usesFahrenheit(), the second negates the promise itself
unroundTemperature(st, value) ==
    IF usesFahrenheit(st)
    THEN fahrenheitToCelsius(MathRound(celsiusToFahrenheit(value), Fahrenheit))
    ELSE IF ~UnawaitedIsTruthy(st)
         THEN MathRound(value, Celsius \div 2)
         ELSE value

\* a merge in which the fields of this.state win: C12 tells the two apart
MergeKeepsOld(st, partial) == st @@ partial

\* { ...this.state, ...partial }
Merge(st, partial) == partial @@ st

\* case 0 without the test of the pin: C14 tells the two apart
OffCommandAlways(p) == "LOW"

\* case 0 of the switch of handleCurrentTemperature: Off
OffCommandNone(p) == "none"

OffCommand(p) == IF p = 1 THEN "LOW" ELSE "none"

\* case 1 with the activation threshold of 2 * 5/9: the threshold of C2 tells
\* the two apart
HeatCommandLateOn(currentTemperature, targetTemperature, p, lastOff, t) ==
    IF p = 1 /\ currentTemperature - targetTemperature >= 3 * FiveNinths
    THEN "LOW"
    ELSE IF targetTemperature - currentTemperature >= 2 * FiveNinths
            /\ ~compressorDelay(lastOff, t)
         THEN "HIGH" ELSE "none"

\* case 1 with a strict deactivation threshold: the threshold of C3 tells the
\* two apart
HeatCommandStrictOff(currentTemperature, targetTemperature, p, lastOff, t) ==
    IF p = 1 /\ currentTemperature - targetTemperature > 3 * FiveNinths
    THEN "LOW"
    ELSE IF targetTemperature - currentTemperature >= 1 * FiveNinths
            /\ ~compressorDelay(lastOff, t)
         THEN "HIGH" ELSE "none"

\* case 1: Heating
HeatCommand(currentTemperature, targetTemperature, p, lastOff, t) ==
    IF p = 1 /\ currentTemperature - targetTemperature >= 3 * FiveNinths
    THEN "LOW"
    ELSE IF targetTemperature - currentTemperature >= 1 * FiveNinths
            /\ ~compressorDelay(lastOff, t)
         THEN "HIGH" ELSE "none"

\* case 2: Cooling
CoolCommand(currentTemperature, targetTemperature, p, lastOff, t) ==
    IF p = 1 /\ targetTemperature - currentTemperature >= 2 * FiveNinths
    THEN "LOW"
    ELSE IF currentTemperature - targetTemperature >= 1 * FiveNinths
            /\ ~compressorDelay(lastOff, t)
         THEN "HIGH" ELSE "none"

\* a default branch that switches the relay off like case 0: C8 tells the two
\* apart
DefaultCommandAsOff(p) == IF p = 1 THEN "LOW" ELSE "none"

\* default: Auto and every other value; only a debug line is logged
DefaultCommand(p) == "none"


\* a decision that takes the target from the record in memory before the
\* callback merged anything into it, and the rest from st: the snapshot of
\* C25 tells the two apart
CommandOnOlderTarget(st, p, t) ==
    LET currentTemperature == ToNumber(st.CurrentTemperature)
        targetTemperature  == state.TargetTemperature
    IN  CASE st.TargetHeatingCoolingState = 0 -> OffCommand(p)
          [] st.TargetHeatingCoolingState = 1 ->
               HeatCommand(currentTemperature, targetTemperature, p, st.LastOff, t)
          [] st.TargetHeatingCoolingState = 2 ->
               CoolCommand(currentTemperature, targetTemperature, p, st.LastOff, t)
          [] OTHER -> DefaultCommand(p)

\* the switch of handleCurrentTemperature on the record st, the pin level p
\* read before it and the clock t: the level it writes to the pin, if any
Command(st, p, t) ==
    LET currentTemperature == ToNumber(st.CurrentTemperature)
        targetTemperature  == st.TargetTemperature
    IN  CASE st.TargetHeatingCoolingState = 0 -> OffCommand(p)
          [] st.TargetHeatingCoolingState = 1 ->
               HeatCommand(currentTemperature, targetTemperature, p, st.LastOff, t)
          [] st.TargetHeatingCoolingState = 2 ->
               CoolCommand(currentTemperature, targetTemperature, p, st.LastOff, t)
          [] OTHER -> DefaultCommand(p)

\* handleCurrentTemperature without the assignments of lastOff: C5 tells the
\* two apart
EvaluateKeepsLastOff(st, p, t) ==
    LET cmd    == Command(st, p, t)
        newPin == IF cmd = "LOW" THEN 0 ELSE IF cmd = "HIGH" THEN 1 ELSE p
    IN  [ cmd     |-> cmd,
          pin     |-> newPin,
          partial |-> [ CurrentHeatingCoolingState |-> IF newPin = 1 THEN 1 ELSE 0,
                        LastOff |-> st.LastOff ] ]

\* handleCurrentTemperature: the command, the pin after it and the partial
\* record handed to setState; lastOff is moment().toString() in the branches
\* that write LOW
Evaluate(st, p, t) ==
    LET cmd    == Command(st, p, t)
        newPin == IF cmd = "LOW" THEN 0 ELSE IF cmd = "HIGH" THEN 1 ELSE p
        lastOff == IF cmd = "LOW" THEN MomentToString(t) ELSE st.LastOff
    IN  [ cmd     |-> cmd,
          pin     |-> newPin,
          partial |-> [ CurrentHeatingCoolingState |-> IF newPin = 1 THEN 1 ELSE 0,
                        LastOff |-> lastOff ] ]

\* a startup load in which the fields of this.state win over those of the
\* persisted record: C7 tells the two apart
LoadedStateKeepsMemory(st, rec) == Merge(rec, st)

\* the record this.state after the startup load merged the persisted record
LoadedState(st, rec) == Merge(st, rec)

NoEval ==
    [ ran |-> FALSE, by |-> "none", mode |-> 0, cur |-> 0, tgt |-> 0, pin |-> 0,
      lastOff |-> 0, at |-> 0, cmd |-> "none", oldValue |-> 0 ]

\* the record of an evaluation: the callback it ran in, what it read (the
\* record st, the pin level p, the clock t), the command it wrote and the
\* oldValue of the change it was called with
EvalRecord(by, st, p, t, cmd) ==
    [ ran |-> TRUE, by |-> by, mode |-> st.TargetHeatingCoolingState,
      cur |-> ToNumber(st.CurrentTemperature), tgt |-> st.TargetTemperature,
      pin |-> p,
      lastOff |-> st.LastOff, at |-> t, cmd |-> cmd, oldValue |-> shown ]

\* a key written without EX, which is found whatever the time: the caching
\* of C29 tells the two apart
LiveKeyForever(key, t) == key

\* what client.get('Authorization') finds at t: the value, unless its EX has
\* run out
LiveKey(key, t) ==
    IF key.kind = "token" /\ t >= key.expires THEN NoToken ELSE key

\* auth: { bearer: this.authorization?.access_token } of a request sent at t
BearerOf(auth, t) ==
    IF auth.kind # "token" THEN "absent"
    ELSE IF t >= auth.expires THEN "expired" ELSE "valid"

----------------------------------------------------------------------------
Init ==
    /\ state = DefaultState
    /\ pin \in {0, 1}
    /\ now = 0
    /\ timer = 0
    /\ phase = "connecting"
    /\ fault = "none"
    /\ store = NoRecord
    /\ storeQ = NoRecord /\ early = 0
    /\ reply = NoReply
    /\ uniqueId = NoId
    /\ remoteQ = NoRequests
    /\ ev = NoEval
    /\ lastLowWrite = <<>>
    /\ redis = "ok"
    /\ rejected = FALSE
    /\ call = NoCall
    /\ authorization = NoToken
    /\ authKey = NoToken
    /\ authQ = NoAuthIO
    /\ bearer = "none"
    /\ shown = NotPushed
    /\ got = NoGot
    /\ touched = {}
    /\ localLastOff = MomentParse(DefaultLastOff)

\* the callbacks of the process run: it has not ended, and no rejection of a
\* write is about to end it
Alive == phase # "crashed" /\ ~rejected

\* time passes
Advance ==
    /\ Alive
    /\ \E t \in Instants : t > now /\ now' = t
    /\ ev' = NoEval
    /\ UNCHANGED <<redis, call>>
    /\ UNCHANGED localLastOff
    /\ UNCHANGED touched
    /\ UNCHANGED got
    /\ UNCHANGED shown
    /\ UNCHANGED authVars
    /\ UNCHANGED <<state, pin, timer, phase, fault, store, storeQ, early, reply,
                   uniqueId, remoteQ, lastLowWrite, rejected>>

\* the startup load has ended: the client is connected and the reply to
\* client.get('State') was delivered
Loaded == phase = "running" /\ reply = NoReply

\* n more writes may be submitted: the model bounds those of a process whose
\* startup load has not ended
Room(n) == Loaded \/ early + n <= MaxEarly

\* client.set('State', JSON.stringify(rec)) for each rec of recs, in order.
\* On the open connection redis executes a command before any later command
\* of this or of a later process, so the write is applied at once; offline,
\* the client queues it until the connection opens, and of the queued writes
\* of the one key only the last is ever read.  While redis answers writes
\* with an error the value stays and the promise client.set returned, which
\* nothing awaits or catches, is rejected.
SubmitFirst(recs) ==
    /\ IF phase = "running"
       THEN /\ UNCHANGED storeQ
            /\ IF redis = "ok"
               THEN store' = recs[1] /\ rejected' = FALSE
               ELSE UNCHANGED store /\ rejected' = TRUE
       ELSE storeQ' = recs[1] /\ UNCHANGED store /\ rejected' = FALSE

Submit(recs) ==
    /\ IF phase = "running"
       THEN /\ UNCHANGED storeQ
            /\ IF redis = "ok"
               THEN store' = recs[Len(recs)] /\ rejected' = FALSE
               ELSE UNCHANGED store /\ rejected' = TRUE
       ELSE storeQ' = recs[Len(recs)] /\ UNCHANGED store /\ rejected' = FALSE

\* the count of early writes after n more writes
EarlyAfter(n) == IF Loaded THEN early ELSE early + n

\* setState(partial): the merged record becomes this.state and is written
setState(partial) ==
    LET merged == Merge(state, partial)
    IN  /\ state' = merged
        /\ Submit(<<merged>>)
        /\ early' = EarlyAfter(1)

\* The CurrentTemperature 'change' listener, handleCurrentTemperature, run by
\* updateCharacteristic on the in-memory record st, after the setState calls
\* of the same callback submitted the records before: it reads st, the pin
\* and the clock, writes the pin and calls setState.  by names the
\* callback: "load" is the one that ends the startup load.
RunEvaluation(by, st, before) ==
    LET r == Evaluate(st, pin, now)
        merged == Merge(st, r.partial)
    IN  /\ state' = merged
        /\ pin' = r.pin
        /\ Submit(Append(before, merged))
        /\ early' = IF by = "load" THEN 0 ELSE EarlyAfter(Len(before) + 1)
        /\ ev' = EvalRecord(by, st, pin, now, r.cmd)
        /\ lastLowWrite' = IF pin = 1 /\ r.pin = 0 THEN <<now>> ELSE lastLowWrite

\* Characteristic.updateValue emits 'change' on every update, whether or not
\* the value differs from the one the characteristic holds
EmitsChangeOnDifference(oldValue, newValue) == oldValue # newValue

EmitsChange(oldValue, newValue) == TRUE

\* service.updateCharacteristic(CurrentTemperature, value) in the callback
\* by, with this.state = st after the setState calls of the callback that
\* submitted the records before: the characteristic takes the value and the
\* 'change' listener runs
updateCharacteristic(by, st, before, value) ==
    /\ shown' = ToNumber(value)
    /\ IF EmitsChange(shown, ToNumber(value))
       THEN RunEvaluation(by, st, before)
       ELSE /\ state' = st
            /\ IF before = <<>>
               THEN UNCHANGED <<store, storeQ, rejected>>
               ELSE Submit(before)
            /\ early' = IF by = "load" THEN 0 ELSE EarlyAfter(Len(before))
            /\ ev' = NoEval
            /\ UNCHANGED <<pin, lastLowWrite>>

\* client.connect() resolves: the commands queued offline are sent, then
\* getAuthorization() and getState() send their reads
Connect ==
    /\ phase = "connecting"
    /\ phase' = "running"
    /\ UNCHANGED fault
    /\ IF storeQ = NoRecord \/ redis = "ok"
       THEN LET sent == IF storeQ = NoRecord THEN store ELSE storeQ
            IN  /\ store' = sent
                /\ reply' = [pending |-> TRUE, rec |-> sent]
                /\ rejected' = FALSE
       ELSE \* redis answers the queued writes with an error
            /\ reply' = [pending |-> TRUE, rec |-> store]
            /\ rejected' = TRUE
            /\ UNCHANGED store
    /\ storeQ' = NoRecord
    /\ ev' = NoEval
    /\ UNCHANGED <<redis, call>>
    /\ UNCHANGED localLastOff
    /\ UNCHANGED touched
    /\ UNCHANGED got
    /\ UNCHANGED shown
    /\ authQ' = [op |-> "get", value |-> LiveKey(authKey, now)]
    /\ UNCHANGED <<authorization, authKey, bearer>>
    /\ UNCHANGED <<state, pin, now, timer, early, uniqueId, remoteQ, lastLowWrite>>

\* getState: the reply to client.get('State') is delivered
getState ==
    /\ phase = "running"
    /\ ~rejected
    /\ reply # NoReply
    /\ reply' = NoReply
    /\ UNCHANGED <<redis, call>>
    /\ UNCHANGED localLastOff
    /\ touched' = {}
    /\ UNCHANGED got
    /\ UNCHANGED authVars
    /\ IF reply.rec = NoRecord
       THEN /\ ev' = NoEval
            /\ early' = 0
            /\ UNCHANGED <<state, pin, store, storeQ, lastLowWrite, rejected,
                           shown>>
       ELSE LET loaded == LoadedState(state, reply.rec)
            IN  updateCharacteristic("load", loaded, <<loaded>>,
                                     loaded.CurrentTemperature)
    /\ UNCHANGED <<now, timer, phase, fault, uniqueId, remoteQ>>

\* a getRemoteTemperature that asks for the catalog whatever this.uniqueId
\* is: the caching of C26 tells the two apart
SentCatalog(q, uid) == [q EXCEPT !.catalog = @ + 1]

\* getRemoteTemperature(): the requests outstanding after it sent one, for the
\* accessory by id when this.uniqueId is set, for the catalog when it is not
Sent(q, uid) ==
    IF uid # NoId
    THEN [q EXCEPT !.byId = @ + 1]
    ELSE [q EXCEPT !.catalog = @ + 1]

\* the setInterval callback: getRemoteTemperature(), then the local sensor
\* unless a remote identity is known.  ds18b20.temperatureSync returns the
\* reading, returns false, or throws (no file for the sensor id, as when no
\* id was discovered): the exception leaves the callback uncaught.
Tick ==
    /\ Alive
    /\ now - timer >= Minute
    /\ timer' = now
    /\ UNCHANGED <<redis, call>>
    /\ UNCHANGED localLastOff
    /\ UNCHANGED touched
    /\ UNCHANGED got
    /\ bearer' = BearerOf(authorization, now)
    /\ UNCHANGED <<authorization, authKey, authQ>>
    /\ remoteQ.catalog + remoteQ.byId < MaxRemote
    /\ IF uniqueId = NoId
       THEN \/ /\ Room(2)
               /\ \E reading \in SensorTemps \cup {ReadingFalse} :
                    LET read == Merge(state, [CurrentTemperature |-> reading])
                    IN  updateCharacteristic("tick", read, <<read>>,
                                             read.CurrentTemperature)
               /\ remoteQ' = Sent(remoteQ, uniqueId)
               /\ UNCHANGED <<phase, fault>>
            \/ /\ phase' = "crashed"
               /\ fault' = "tick"
               /\ remoteQ' = NoRequests
               /\ ev' = NoEval
               /\ UNCHANGED <<state, pin, store, storeQ, early, lastLowWrite,
                              rejected, shown>>
       ELSE /\ remoteQ' = Sent(remoteQ, uniqueId)
            /\ ev' = NoEval
            /\ UNCHANGED <<state, pin, phase, fault, store, storeQ, early,
                           lastLowWrite, rejected, shown>>
    /\ UNCHANGED <<now, reply, uniqueId>>

\* the callback of a request of getRemoteTemperature is called with an error:
\* log.error(err), then res.statusCode with res undefined, a TypeError thrown
\* out of the callback
RemoteError ==
    /\ Alive
    /\ remoteQ # NoRequests
    /\ phase' = "crashed"
    /\ fault' = "getRemoteTemperature"
    /\ remoteQ' = NoRequests
    /\ ev' = NoEval
    /\ UNCHANGED <<redis, call>>
    /\ UNCHANGED localLastOff
    /\ UNCHANGED touched
    /\ UNCHANGED got
    /\ UNCHANGED shown
    /\ UNCHANGED authVars
    /\ UNCHANGED <<state, pin, now, timer, store, storeQ, early, reply, uniqueId,
                   lastLowWrite, rejected>>

\* the callback of a request of getRemoteTemperature is called with a body
RemoteReply ==
    /\ Alive
    /\ \/ \* the accessory asked for by id
          /\ remoteQ.byId > 0
          /\ remoteQ' = [remoteQ EXCEPT !.byId = @ - 1]
          /\ Room(1)
          /\ \E value \in SensorTemps :
               updateCharacteristic("remote", state, <<>>, value)
          /\ UNCHANGED uniqueId
       \/ \* a catalog with an accessory of the configured serial number
          /\ remoteQ.catalog > 0
          /\ remoteQ' = [remoteQ EXCEPT !.catalog = @ - 1]
          /\ Room(1)
          /\ uniqueId' = SensorId
          /\ \E value \in SensorTemps :
               updateCharacteristic("remote", state, <<>>, value)
       \/ \* a catalog without one
          /\ remoteQ.catalog > 0
          /\ remoteQ' = [remoteQ EXCEPT !.catalog = @ - 1]
          /\ ev' = NoEval
          /\ UNCHANGED <<state, pin, store, storeQ, early, uniqueId, lastLowWrite,
                         rejected, shown>>
    /\ UNCHANGED <<redis, call>>
    /\ UNCHANGED localLastOff
    /\ UNCHANGED touched
    /\ UNCHANGED got
    /\ UNCHANGED authVars
    /\ UNCHANGED <<now, timer, phase, fault, reply>>

setTargetHeatingCoolingState ==
    /\ Alive
    /\ Room(1)
    /\ \E value \in ValidModes : setState([TargetHeatingCoolingState |-> value])
    /\ ev' = NoEval
    /\ UNCHANGED <<redis, call>>
    /\ UNCHANGED localLastOff
    /\ touched' = IF Loaded THEN touched
                  ELSE touched \cup {"TargetHeatingCoolingState"}
    /\ UNCHANGED got
    /\ UNCHANGED shown
    /\ UNCHANGED authVars
    /\ UNCHANGED <<pin, now, timer, phase, fault, reply, uniqueId, remoteQ, lastLowWrite>>

setTargetTemperature ==
    /\ Alive
    /\ Room(1)
    /\ \E value \in TargetTemps : setState([TargetTemperature |-> value])
    /\ ev' = NoEval
    /\ UNCHANGED <<redis, call>>
    /\ UNCHANGED localLastOff
    /\ touched' = IF Loaded THEN touched
                  ELSE touched \cup {"TargetTemperature"}
    /\ UNCHANGED got
    /\ UNCHANGED shown
    /\ UNCHANGED authVars
    /\ UNCHANGED <<pin, now, timer, phase, fault, reply, uniqueId, remoteQ, lastLowWrite>>

\* the process ends and is started again: the constructor runs, on the pin as
\* it was left; the commands queued offline and the replies not delivered are
\* lost with the process
Restart ==
    /\ phase' = "connecting"
    /\ fault' = "none"
    /\ state' = DefaultState
    /\ uniqueId' = NoId
    /\ remoteQ' = NoRequests
    /\ storeQ' = NoRecord
    /\ early' = 0
    /\ reply' = NoReply
    /\ ev' = NoEval
    /\ timer' = now
    /\ UNCHANGED <<redis, call>>
    /\ UNCHANGED localLastOff
    /\ touched' = {}
    /\ UNCHANGED got
    /\ shown' = NotPushed
    /\ authorization' = NoToken
    /\ authQ' = NoAuthIO
    /\ bearer' = "none"
    /\ UNCHANGED authKey
    /\ rejected' = FALSE
    /\ UNCHANGED <<pin, now, store, lastLowWrite>>

\* the promise of a rejected write is rejected with nothing handling it: Node
\* raises the unhandled rejection as an uncaught exception
UnhandledRejection ==
    /\ rejected
    /\ phase # "crashed"
    /\ rejected' = FALSE
    /\ phase' = "crashed"
    /\ fault' = "setState"
    /\ remoteQ' = NoRequests
    /\ ev' = NoEval
    /\ UNCHANGED <<redis, call>>
    /\ UNCHANGED localLastOff
    /\ UNCHANGED touched
    /\ UNCHANGED got
    /\ UNCHANGED shown
    /\ UNCHANGED authVars
    /\ UNCHANGED <<state, pin, now, timer, store, storeQ, early, reply, uniqueId,
                   lastLowWrite>>

Next ==
    \/ Advance
    \/ Connect
    \/ getState
    \/ Tick
    \/ RemoteError
    \/ RemoteReply
    \/ setTargetHeatingCoolingState
    \/ setTargetTemperature
    \/ Restart

Spec == Init /\ [][Next]_vars

----------------------------------------------------------------------------
(* The periodic tick of a loaded process on the local sensor, under fair
   scheduling: the interval timer fires when it is due and time passes; the
   remote service leaves the requests unanswered and nothing else calls *)

\* the last instant a tick of the model can be due at
Horizon == MaxPeriods * FourMinutes

InitLive ==
    /\ pin \in {0, 1}
    /\ \E m \in ValidModes, c \in SensorTemps, g \in TargetTemps,
          l \in {DefaultLastOff, 0} :
         /\ state = [DefaultState EXCEPT !.TargetHeatingCoolingState = m,
                                         !.CurrentTemperature = c,
                                         !.TargetTemperature = g,
                                         !.LastOff = l,
                                         !.CurrentHeatingCoolingState = pin]
         /\ shown = c
    /\ store = state
    /\ now = 0
    /\ timer = 0
    /\ phase = "running"
    /\ fault = "none"
    /\ storeQ = NoRecord /\ early = 0
    /\ reply = NoReply
    /\ uniqueId = NoId
    /\ remoteQ = NoRequests
    /\ ev = NoEval
    /\ lastLowWrite = <<>>
    /\ redis = "ok"
    /\ rejected = FALSE
    /\ call = NoCall
    /\ authorization = NoToken
    /\ authKey = NoToken
    /\ authQ = NoAuthIO
    /\ bearer = "none"
    /\ got = NoGot
    /\ touched = {}
    /\ localLastOff = MomentParse(DefaultLastOff)

NextLive ==
    \/ Advance
    \/ Tick

\* setInterval fires the callback whenever the period has passed
SpecLive ==
    InitLive /\ [][NextLive]_vars /\ WF_vars(Advance) /\ WF_vars(Tick)

----------------------------------------------------------------------------
(* The same process with the controller changing the mode between the
   ticks: it starts in Heat or in Cool *)

InitOff ==
    /\ InitLive
    /\ state.TargetHeatingCoolingState # 0

NextOff ==
    \/ Advance
    \/ Tick
    \/ setTargetHeatingCoolingState

\* setInterval fires the callback whenever the period has passed; the
\* controller calls when it pleases
SpecOff ==
    InitOff /\ [][NextOff]_vars /\ WF_vars(Advance) /\ WF_vars(Tick)

----------------------------------------------------------------------------
(* The bearer token: getAuthorization and the requests that carry it *)

\* the reply to client.get('Authorization') is delivered: a cached value is
\* parsed into this.authorization, a miss starts the credential exchange
AuthGetReply ==
    /\ Alive
    /\ authQ.op = "get"
    /\ IF authQ.value # NoToken
       THEN /\ authorization' = authQ.value
            /\ authQ' = NoAuthIO
       ELSE /\ authQ' = [op |-> "post"]
            /\ UNCHANGED authorization
    /\ ev' = NoEval
    /\ UNCHANGED <<authKey, bearer>>
    /\ UNCHANGED <<redis, call>>
    /\ UNCHANGED localLastOff
    /\ UNCHANGED touched
    /\ UNCHANGED got
    /\ UNCHANGED shown
    /\ UNCHANGED <<state, pin, now, timer, phase, fault, store, storeQ, early,
                   reply, uniqueId, remoteQ, lastLowWrite, rejected>>

\* the callback of request.post is called
AuthPostReply ==
    /\ Alive
    /\ authQ.op = "post"
    /\ ev' = NoEval
    /\ \/ \* with an error: log.error(err) and return
          /\ authQ' = [op |-> "failed"]
          /\ UNCHANGED <<authorization, authKey, phase, fault, remoteQ>>
       \/ \* with the body of a token: kept in memory and stored with
          \* EX: expires_in
          /\ authQ' = NoAuthIO
          /\ authorization' = [kind |-> "token", expires |-> now + TokenLife]
          /\ authKey' = authorization'
          /\ UNCHANGED <<phase, fault, remoteQ>>
       \/ \* with the JSON body of an error response: parsed and kept as if it
          \* were the token, stored with EX: undefined, which never expires
          /\ authQ' = [op |-> "failed"]
          /\ authorization' = NotAToken
          /\ authKey' = NotAToken
          /\ UNCHANGED <<phase, fault, remoteQ>>
       \/ \* with a body that is not JSON: JSON.parse throws out of the
          \* callback
          /\ authQ' = [op |-> "failed"]
          /\ phase' = "crashed"
          /\ fault' = "getAuthorization"
          /\ remoteQ' = NoRequests
          /\ UNCHANGED <<authorization, authKey>>
    /\ UNCHANGED bearer
    /\ UNCHANGED <<redis, call>>
    /\ UNCHANGED localLastOff
    /\ UNCHANGED touched
    /\ UNCHANGED got
    /\ UNCHANGED shown
    /\ UNCHANGED <<state, pin, now, timer, store, storeQ, early, reply, uniqueId,
                   lastLowWrite, rejected>>

NextAuth ==
    \/ Advance
    \/ Connect
    \/ getState
    \/ Tick
    \/ RemoteError
    \/ RemoteReply
    \/ AuthGetReply
    \/ AuthPostReply
    \/ Restart

SpecAuth == Init /\ [][NextAuth]_vars

----------------------------------------------------------------------------
(* One control evaluation on every input of the bounded sets *)

InitEval ==
    /\ \E m \in Modes, c \in EvalTemps, g \in TargetTemps, l \in EvalLastOffs :
         state = [DefaultState EXCEPT !.TargetHeatingCoolingState = m,
                                      !.CurrentTemperature = c,
                                      !.TargetTemperature = g,
                                      !.LastOff = l]
    /\ pin \in {0, 1}
    /\ now \in EvalInstants
    /\ timer = now
    /\ state.LastOff = DefaultLastOff \/ MomentParse(state.LastOff) <= now
    /\ phase = "running"
    /\ fault = "none"
    /\ store = NoRecord
    /\ storeQ = NoRecord /\ early = 0
    /\ reply = NoReply
    /\ uniqueId = NoId
    /\ remoteQ = NoRequests
    /\ ev = NoEval
    /\ lastLowWrite = <<>>
    /\ redis = "ok"
    /\ rejected = FALSE
    /\ call = NoCall
    /\ authorization = NoToken
    /\ authKey = NoToken
    /\ authQ = NoAuthIO
    /\ bearer = "none"
    /\ shown = NotPushed
    /\ got = NoGot
    /\ touched = {}
    /\ localLastOff = MomentParse(DefaultLastOff)

\* the framework emits 'change' on CurrentTemperature
handleCurrentTemperature ==
    /\ ~ev.ran
    /\ RunEvaluation("change", state, <<>>)
    /\ UNCHANGED <<redis, call>>
    /\ UNCHANGED localLastOff
    /\ UNCHANGED touched
    /\ UNCHANGED got
    /\ UNCHANGED shown
    /\ UNCHANGED authVars
    /\ UNCHANGED <<now, timer, phase, fault, reply, uniqueId, remoteQ>>

SpecEval == InitEval /\ [][handleCurrentTemperature]_vars

----------------------------------------------------------------------------
(* One setState(partial) on every record and partial of the bounded sets,    *)
(* before and after the connection opened, with redis accepting the write    *)
(* or answering it with an error                                             *)

\* the partial records the callers of setState hand over: the five setters,
\* the tick and handleCurrentTemperature
Partials ==
    {[TargetHeatingCoolingState |-> v] : v \in ValidModes}
        \cup {[TargetTemperature |-> v] : v \in TargetTemps}
        \cup {[CoolingThresholdTemperature |-> v] : v \in TargetTemps}
        \cup {[HeatingThresholdTemperature |-> v] : v \in TargetTemps}
        \cup {[TemperatureDisplayUnits |-> v] : v \in 0..1}
        \cup {[CurrentTemperature |-> v] : v \in SensorTemps}
        \cup {[CurrentHeatingCoolingState |-> c, LastOff |-> l] :
                 c \in 0..1, l \in EvalLastOffs}

InitMerge ==
    /\ \E m \in Modes, c \in SensorTemps, g \in TargetTemps, l \in EvalLastOffs :
         state = [DefaultState EXCEPT !.TargetHeatingCoolingState = m,
                                      !.CurrentTemperature = c,
                                      !.TargetTemperature = g,
                                      !.LastOff = l]
    /\ call \in Partials
    /\ phase \in {"connecting", "running"}
    /\ redis \in {"ok", "rejecting"}
    /\ pin \in {0, 1}
    /\ now = 0
    /\ timer = 0
    /\ fault = "none"
    /\ store = NoRecord
    /\ storeQ = NoRecord /\ early = 0
    /\ reply = NoReply
    /\ uniqueId = NoId
    /\ remoteQ = NoRequests
    /\ ev = NoEval
    /\ lastLowWrite = <<>>
    /\ rejected = FALSE
    /\ authorization = NoToken
    /\ authKey = NoToken
    /\ authQ = NoAuthIO
    /\ bearer = "none"
    /\ shown = NotPushed
    /\ got = NoGot
    /\ touched = {}
    /\ localLastOff = MomentParse(DefaultLastOff)

\* a caller runs setState(call)
callSetState ==
    /\ Alive
    /\ call # NoCall
    /\ setState(call)
    /\ call' = NoCall
    /\ ev' = NoEval
    /\ UNCHANGED <<pin, now, timer, phase, fault, reply, uniqueId, remoteQ,
                   lastLowWrite, redis, shown, got, touched,
      localLastOff>>
    /\ UNCHANGED authVars

NextMerge ==
    \/ callSetState
    \/ UnhandledRejection

SpecMerge == InitMerge /\ [][NextMerge]_vars

----------------------------------------------------------------------------
(* The getters of the temperatures and the setter of the display unit, one
   request on every record of the bounded sets *)

InitDisplay ==
    /\ \E m \in {0, 1}, c \in StoredTemps, g \in TargetTemps, u \in 0..1 :
         state = [DefaultState EXCEPT !.TargetHeatingCoolingState = m,
                                      !.CurrentTemperature = c,
                                      !.TargetTemperature = g,
                                      !.TemperatureDisplayUnits = u]
    /\ store = state
    /\ pin \in {0, 1}
    /\ now = 0
    /\ timer = 0
    /\ phase = "running"
    /\ fault = "none"
    /\ storeQ = NoRecord /\ early = 0
    /\ reply = NoReply
    /\ uniqueId = NoId
    /\ remoteQ = NoRequests
    /\ ev = NoEval
    /\ lastLowWrite = <<>>
    /\ redis = "ok"
    /\ rejected = FALSE
    /\ call = NoCall
    /\ authorization = NoToken
    /\ authKey = NoToken
    /\ authQ = NoAuthIO
    /\ bearer = "none"
    /\ shown = NotPushed
    /\ got = NoGot
    /\ touched = {}
    /\ localLastOff = MomentParse(DefaultLastOff)

\* what a getter leaves as it was: everything but the answer
getterFrame ==
    <<state, pin, now, timer, phase, fault, store, storeQ, early, reply,
      uniqueId, remoteQ, ev, lastLowWrite, redis, rejected, call, shown,
      authorization, authKey, authQ, bearer, touched,
      localLastOff>>

\* the answer of the getter by for the stored value: unroundTemperature(value)
Answer(by, value) ==
    [by |-> by, of |-> value, value |-> unroundTemperature(state, value)]

getCurrentTemperature ==
    /\ Alive
    /\ got = NoGot
    /\ got' = Answer("getCurrentTemperature", state.CurrentTemperature)
    /\ UNCHANGED getterFrame

getTargetTemperatureAlways ==
    /\ Alive
    /\ got = NoGot
    /\ got' = Answer("getTargetTemperature", state.TargetTemperature)
    /\ UNCHANGED getterFrame

\* in mode Off the current temperature is returned for the target
getTargetTemperature ==
    /\ Alive
    /\ got = NoGot
    /\ got' = Answer("getTargetTemperature",
                     IF state.TargetHeatingCoolingState = 0
                     THEN state.CurrentTemperature
                     ELSE state.TargetTemperature)
    /\ UNCHANGED getterFrame

getCoolingThresholdTemperature ==
    /\ Alive
    /\ got = NoGot
    /\ got' = Answer("getCoolingThresholdTemperature",
                     state.CoolingThresholdTemperature)
    /\ UNCHANGED getterFrame

getHeatingThresholdTemperature ==
    /\ Alive
    /\ got = NoGot
    /\ got' = Answer("getHeatingThresholdTemperature",
                     state.HeatingThresholdTemperature)
    /\ UNCHANGED getterFrame

setTemperatureDisplayUnits ==
    /\ Alive
    /\ got = NoGot
    /\ \E value \in 0..1 :
         /\ setState([TemperatureDisplayUnits |-> value])
         /\ got' = [by |-> "setTemperatureDisplayUnits", of |-> value,
                    value |-> value]
    /\ ev' = NoEval
    /\ UNCHANGED <<pin, now, timer, phase, fault, reply, uniqueId, remoteQ,
                   lastLowWrite, redis, call, shown, touched,
      localLastOff>>
    /\ UNCHANGED authVars

NextDisplay ==
    \/ getCurrentTemperature
    \/ getTargetTemperature
    \/ getCoolingThresholdTemperature
    \/ getHeatingThresholdTemperature
    \/ setTemperatureDisplayUnits

SpecDisplay == InitDisplay /\ [][NextDisplay]_vars

----------------------------------------------------------------------------
(* The target asked for while the process ticks and the controller changes
   the mode: a loaded process on the local sensor, in any mode and either
   display unit, that answers one request for the target *)

InitTarget ==
    /\ pin \in {0, 1}
    /\ \E m \in Modes, c \in SensorTemps, g \in TargetTemps, u \in 0..1 :
         /\ state = [DefaultState EXCEPT !.TargetHeatingCoolingState = m,
                                         !.CurrentTemperature = c,
                                         !.TargetTemperature = g,
                                         !.TemperatureDisplayUnits = u,
                                         !.CurrentHeatingCoolingState = pin]
         /\ shown = c
    /\ store = state
    /\ now = 0
    /\ timer = 0
    /\ phase = "running"
    /\ fault = "none"
    /\ storeQ = NoRecord /\ early = 0
    /\ reply = NoReply
    /\ uniqueId = NoId
    /\ remoteQ = NoRequests
    /\ ev = NoEval
    /\ lastLowWrite = <<>>
    /\ redis = "ok"
    /\ rejected = FALSE
    /\ call = NoCall
    /\ authorization = NoToken
    /\ authKey = NoToken
    /\ authQ = NoAuthIO
    /\ bearer = "none"
    /\ got = NoGot
    /\ touched = {}
    /\ localLastOff = MomentParse(DefaultLastOff)

NextTarget ==
    \/ Advance
    \/ Tick
    \/ setTargetHeatingCoolingState
    \/ getTargetTemperature

SpecTarget == InitTarget /\ [][NextTarget]_vars

----------------------------------------------------------------------------
(* The Thermostat of the AccessoryPlugin variant: this.state has no LastOff,
   the instant of the last deactivation is the field this.lastOff; the
   callback of the interval runs every 10 seconds on the local sensor; redis
   accepts every write *)

TenSeconds == 10 * TicksPerSecond

\* this.state as the constructor sets it
PluginState ==
    [ CurrentHeatingCoolingState |-> 0,
      CurrentTemperature         |-> DefaultTemperature,
      TargetHeatingCoolingState  |-> 0,
      TargetTemperature          |-> DefaultTemperature,
      TemperatureDisplayUnits    |-> 1 ]

\* compressorDelay(): this.lastOff.isAfter(moment().subtract(4, 'minutes'))
PluginCompressorDelay(lo, t) ==
    LET fourMinutesAgo == t - FourMinutes
    IN  lo > fourMinutesAgo

\* the switch of handleCurrentTemperatureChange on the record st, the pin
\* level p read before it, this.lastOff lo and the clock t; cases 1 and 2
\* decide only when both temperatures are numbers
PluginCommand(st, p, lo, t) ==
    LET currentTemperature == st.CurrentTemperature
        targetTemperature  == st.TargetTemperature
        numbers == currentTemperature # ReadingFalse
    IN  CASE st.TargetHeatingCoolingState = 0 ->
               IF p = 1 THEN "LOW" ELSE "none"
          [] st.TargetHeatingCoolingState = 1 ->
               IF ~numbers THEN "none"
               ELSE IF p = 1 /\ currentTemperature - targetTemperature
                                   >= 3 * FiveNinths
                    THEN "LOW"
                    ELSE IF targetTemperature - currentTemperature
                               >= 1 * FiveNinths
                            /\ ~PluginCompressorDelay(lo, t)
                         THEN "HIGH" ELSE "none"
          [] st.TargetHeatingCoolingState = 2 ->
               IF ~numbers THEN "none"
               ELSE IF p = 1 /\ targetTemperature - currentTemperature
                                   >= 2 * FiveNinths
                    THEN "LOW"
                    ELSE IF currentTemperature - targetTemperature
                               >= 1 * FiveNinths
                            /\ ~PluginCompressorDelay(lo, t)
                         THEN "HIGH" ELSE "none"
          [] OTHER -> "none"

\* setState of the variant: the merged record becomes this.state and is
\* written
PluginSetState(st, partial) ==
    /\ state' = Merge(st, partial)
    /\ store' = state'

\* handleCurrentTemperatureChange, the 'change' listener, on this.state = st:
\* it writes the pin, assigns moment() to this.lastOff in the branches that
\* write LOW and calls setState with the level read back.  The lastOff of
\* the record of the evaluation is the instant itself.
handleCurrentTemperatureChange(st) ==
    LET cmd    == PluginCommand(st, pin, localLastOff, now)
        newPin == IF cmd = "LOW" THEN 0 ELSE IF cmd = "HIGH" THEN 1 ELSE pin
    IN  /\ pin' = newPin
        /\ localLastOff' = IF cmd = "LOW" THEN now ELSE localLastOff
        /\ PluginSetState(st, [CurrentHeatingCoolingState |->
                                  IF newPin = 1 THEN 1 ELSE 0])
        /\ ev' = [ ran |-> TRUE, by |-> "tick",
                   mode |-> st.TargetHeatingCoolingState,
                   cur |-> ToNumber(st.CurrentTemperature),
                   tgt |-> st.TargetTemperature, pin |-> pin,
                   lastOff |-> localLastOff, at |-> now, cmd |-> cmd,
                   oldValue |-> shown ]
        /\ lastLowWrite' = IF pin = 1 /\ newPin = 0 THEN <<now>>
                           ELSE lastLowWrite

\* what the steps of the variant never touch
pluginFrame ==
    <<storeQ, early, uniqueId, remoteQ, redis, rejected, call, authorization,
      authKey, authQ, bearer, got, touched>>

\* the constructor has run: the defaults in memory, the get of the record
\* sent before any write of the process, the pin as it was left
InitPlugin ==
    /\ state = PluginState
    /\ localLastOff = MomentParse(DefaultLastOff)
    /\ pin \in {0, 1}
    /\ now = 0
    /\ timer = 0
    /\ phase = "running"
    /\ fault = "none"
    /\ store = NoRecord
    /\ reply = [pending |-> TRUE, rec |-> store]
    /\ storeQ = NoRecord /\ early = 0
    /\ uniqueId = NoId
    /\ remoteQ = NoRequests
    /\ ev = NoEval
    /\ lastLowWrite = <<>>
    /\ redis = "ok"
    /\ rejected = FALSE
    /\ call = NoCall
    /\ authorization = NoToken
    /\ authKey = NoToken
    /\ authQ = NoAuthIO
    /\ bearer = "none"
    /\ shown = NotPushed
    /\ got = NoGot
    /\ touched = {}

\* updateValues: the reply to client.get('State') is delivered; a record
\* replaces this.state; no listener of CurrentTemperature runs
updateValues ==
    /\ Alive
    /\ reply # NoReply
    /\ reply' = NoReply
    /\ state' = IF reply.rec = NoRecord THEN state ELSE reply.rec
    /\ ev' = NoEval
    /\ UNCHANGED <<pin, now, timer, phase, fault, store, lastLowWrite, shown,
                   localLastOff>>
    /\ UNCHANGED pluginFrame

\* the callback of setInterval(..., 10000): setState with the reading of
\* the sensor, then updateCharacteristic, whose 'change' runs the listener;
\* ds18b20.temperatureSync returns the reading, returns false, or throws
PluginTick ==
    /\ Alive
    /\ now - timer >= TenSeconds
    /\ timer' = now
    /\ \/ /\ \E reading \in SensorTemps \cup {ReadingFalse} :
               LET read == Merge(state, [CurrentTemperature |-> reading])
               IN  /\ shown' = ToNumber(reading)
                   /\ IF EmitsChange(shown, ToNumber(reading))
                      THEN handleCurrentTemperatureChange(read)
                      ELSE /\ PluginSetState(read, <<>>)
                           /\ ev' = NoEval
                           /\ UNCHANGED <<pin, localLastOff, lastLowWrite>>
          /\ UNCHANGED <<phase, fault>>
       \/ /\ phase' = "crashed"
          /\ fault' = "tick"
          /\ ev' = NoEval
          /\ UNCHANGED <<state, pin, store, lastLowWrite, shown,
                         localLastOff>>
    /\ UNCHANGED <<now, reply>>
    /\ UNCHANGED pluginFrame

handleTargetHeatingCoolingStateSet ==
    /\ Alive
    /\ \E value \in ValidModes :
         PluginSetState(state, [TargetHeatingCoolingState |-> value])
    /\ ev' = NoEval
    /\ UNCHANGED <<pin, now, timer, phase, fault, reply, lastLowWrite, shown,
                   localLastOff>>
    /\ UNCHANGED pluginFrame

handleTargetTemperatureSet ==
    /\ Alive
    /\ \E value \in TargetTemps :
         PluginSetState(state, [TargetTemperature |-> value])
    /\ ev' = NoEval
    /\ UNCHANGED <<pin, now, timer, phase, fault, reply, lastLowWrite, shown,
                   localLastOff>>
    /\ UNCHANGED pluginFrame

\* the process ends and is started again: the constructor runs, on the pin
\* and the store as they were left
PluginRestart ==
    /\ state' = PluginState
    /\ localLastOff' = MomentParse(DefaultLastOff)
    /\ phase' = "running"
    /\ fault' = "none"
    /\ reply' = [pending |-> TRUE, rec |-> store]
    /\ timer' = now
    /\ ev' = NoEval
    /\ shown' = NotPushed
    /\ UNCHANGED <<pin, now, store, lastLowWrite>>
    /\ UNCHANGED pluginFrame

NextPlugin ==
    \/ Advance
    \/ updateValues
    \/ PluginTick
    \/ handleTargetHeatingCoolingStateSet
    \/ handleTargetTemperatureSet
    \/ PluginRestart

SpecPlugin == InitPlugin /\ [][NextPlugin]_vars

----------------------------------------------------------------------------
(* Claims *)

\* the evaluation of the last step wrote the pin from LOW to HIGH
Activated == ev.ran /\ ev.pin = 0 /\ ev.cmd = "HIGH"
\* the evaluation of the last step wrote the pin from HIGH to LOW
Deactivated == ev.ran /\ ev.pin = 1 /\ ev.cmd = "LOW"
\* the time between the instant the LastOff read by the evaluation names and
\* the evaluation
SinceLastOff == ev.at - MomentParse(ev.lastOff)
\* the guard permits at the evaluation: now - LastOff >= 4 minutes
GuardPermits == SinceLastOff >= FourMinutes

\* C1: Short-cycle protection over whole runs: the pin is never written from
\* LOW to HIGH less than 4 minutes after the latest instant at which it was
\* written from HIGH to LOW.
C1_ShortCycleProtection ==
    (Activated /\ lastLowWrite # <<>>) => ev.at - lastLowWrite[1] >= FourMinutes

\* C2: Heat activation: an evaluation with mode Heat, the pin low,
\* targetTemp - currentTemp >= 5/9 and now - LastOff >= 4 minutes writes the
\* pin HIGH.
C2_HeatActivation ==
    (ev.ran /\ ev.mode = 1 /\ ev.pin = 0 /\ ev.tgt - ev.cur >= FiveNinths
        /\ GuardPermits)
    => (ev.cmd = "HIGH" /\ pin = 1)

\* Heat, the pin low, the difference exactly 5/9, LastOff exactly 4 minutes
\* before: activated
C2_Witness ==
    /\ ev.ran /\ ev.mode = 1 /\ ev.pin = 0
    /\ ev.tgt - ev.cur = FiveNinths
    /\ SinceLastOff = FourMinutes
    /\ ev.cmd = "HIGH" /\ pin = 1

\* C3: Heat deactivation: an evaluation with mode Heat, the pin high and
\* currentTemp - targetTemp >= 3 * 5/9 writes the pin LOW, and the LastOff of
\* the record in memory after it, which is the record persisted once redis
\* accepted the write, is the instant of the evaluation as moment().toString()
\* prints it, to the second.
C3_HeatDeactivation ==
    (ev.ran /\ ev.mode = 1 /\ ev.pin = 1 /\ ev.cur - ev.tgt >= 3 * FiveNinths)
    => /\ ev.cmd = "LOW" /\ pin = 0
       /\ state.LastOff = MomentToString(ev.at)
       /\ ~rejected => store = state

\* Heat, the pin high, the difference exactly 3 * 5/9, at an instant later
\* than the LastOff read: deactivated and the new LastOff persisted
C3_Witness ==
    /\ ev.ran /\ ev.mode = 1 /\ ev.pin = 1
    /\ ev.cur - ev.tgt = 3 * FiveNinths
    /\ ev.cmd = "LOW" /\ pin = 0
    /\ ev.lastOff # MomentToString(ev.at)
    /\ ~rejected
    /\ store.LastOff = MomentToString(ev.at)

\* C4: Cool mirrors Heat with the deactivation threshold 2 * 5/9: the
\* evaluation writes LOW (and sets LastOff to now) iff the pin is high and
\* targetTemp - currentTemp >= 2 * 5/9; it writes HIGH iff the pin is low,
\* currentTemp - targetTemp >= 5/9 and the guard permits; otherwise it writes
\* nothing.
C4_CoolMirror ==
    (ev.ran /\ ev.mode = 2)
    => LET off == ev.pin = 1 /\ ev.tgt - ev.cur >= 2 * FiveNinths
           on  == ev.pin = 0 /\ ev.cur - ev.tgt >= FiveNinths /\ GuardPermits
       IN  /\ ev.cmd = "LOW" <=> off
           /\ off => state.LastOff = MomentToString(ev.at)
           /\ ev.cmd = "HIGH" <=> on
           /\ (~off /\ ~on) => ev.cmd = "none"

\* C5: Mode Off never energizes: an evaluation with mode Off never writes the
\* pin HIGH, whatever the temperatures and LastOff are; if the pin is high it
\* is written LOW and LastOff is set to the instant of the evaluation.
C5_OffNeverEnergizes ==
    (ev.ran /\ ev.mode = 0)
    => /\ ev.cmd # "HIGH"
       /\ pin = 0
       /\ ev.pin = 1 => /\ ev.cmd = "LOW"
                        /\ state.LastOff = MomentToString(ev.at)

\* Off with the pin high, a room colder than the target and an older LastOff:
\* deactivated, LastOff renewed
C5_Witness ==
    /\ ev.ran /\ ev.mode = 0 /\ ev.pin = 1
    /\ ev.tgt - ev.cur >= FiveNinths
    /\ GuardPermits
    /\ ev.cmd = "LOW" /\ pin = 0
    /\ state.LastOff = MomentToString(ev.at) /\ state.LastOff # ev.lastOff

\* the activation threshold of the mode of the evaluation is met
WantsOn ==
    \/ ev.mode = 1 /\ ev.tgt - ev.cur >= FiveNinths
    \/ ev.mode = 2 /\ ev.cur - ev.tgt >= FiveNinths

\* C6: Compressor guard boundary: compressorDelay() is false exactly when
\* now - LastOff >= 4 minutes; an evaluation that would activate is blocked
\* for every LastOff less than 4 minutes before and goes through at exactly
\* 4 minutes.
C6_GuardBoundary ==
    ev.ran
    => /\ ~compressorDelay(ev.lastOff, ev.at) <=> GuardPermits
       /\ (ev.pin = 0 /\ WantsOn) => (ev.cmd = "HIGH" <=> GuardPermits)

\* Cool, the pin low, the threshold met, LastOff exactly 4 minutes before:
\* activated
C6_Witness ==
    /\ ev.ran /\ ev.mode = 2 /\ ev.pin = 0 /\ WantsOn
    /\ SinceLastOff = FourMinutes
    /\ ~compressorDelay(ev.lastOff, ev.at)
    /\ ev.cmd = "HIGH"

C8_AutoNoOp ==
    (ev.ran /\ ev.mode = 3)
    => (ev.cmd = "none" /\ pin = ev.pin /\ state.LastOff = ev.lastOff)

\* Auto, the pin high, the room 3 * 5/9 or more above the target: nothing
\* written
C8_Witness ==
    /\ ev.ran /\ ev.mode = 3 /\ ev.pin = 1
    /\ ev.cur - ev.tgt >= 3 * FiveNinths
    /\ ev.cmd = "none" /\ pin = 1 /\ state.LastOff = ev.lastOff

\* C9: Invalid mode values are treated as Off: an evaluation whose mode is
\* outside {Off, Heat, Cool, Auto} never writes HIGH and, if the pin is high,
\* writes it LOW and sets LastOff to the instant of the evaluation.
C9_InvalidModeAsOff ==
    (ev.ran /\ ev.mode \notin 0..3)
    => /\ ev.cmd # "HIGH"
       /\ ev.pin = 1 => /\ ev.cmd = "LOW" /\ pin = 0
                        /\ state.LastOff = MomentToString(ev.at)

\* C10: Remote fetch failure degrades to the local reading: a remote request
\* that completes with an error never ends the process with an exception
\* thrown out of its callback.
C10_RemoteFailureDegrades ==
    ~(phase = "crashed" /\ fault = "getRemoteTemperature")

\* C11: Local sensor failure holds the last good value: a tick whose sensor
\* read fails never ends the process and never puts the invalid reading in
\* state.CurrentTemperature or in the persisted record.
C11_SensorFailureHoldsLast ==
    /\ fault # "tick"
    /\ state.CurrentTemperature # ReadingFalse
    /\ store # NoRecord => store.CurrentTemperature # ReadingFalse

\* C12: Merge semantics of setState(partial): every field absent from partial
\* keeps its value, every field present takes partial's value, and one write
\* of the whole merged record is submitted: it is the value of the key once
\* redis accepted it, and before the connection opened it is the one record
\* added to the offline queue.
C12_MergeSemantics ==
    [][ (call # NoCall /\ call' = NoCall)
        => /\ DOMAIN state' = DOMAIN state
           /\ \A f \in DOMAIN state :
                state'[f] = IF f \in DOMAIN call THEN call[f] ELSE state[f]
           /\ IF phase = "running"
              THEN /\ redis = "ok" => store' = state'
                   /\ storeQ' = storeQ
              ELSE /\ storeQ' = state'
                   /\ early' = early + 1
                   /\ store' = store
      ]_vars

\* before the connection opened, a merge set the cooling threshold in a
\* record whose mode is Cool: one write, of the whole record, is queued
C12_Witness ==
    /\ call = NoCall /\ phase = "connecting"
    /\ early = 1 /\ storeQ = state
    /\ state.CoolingThresholdTemperature = Setpoint
    /\ state.TargetHeatingCoolingState = 2
    /\ state.TargetTemperature = DefaultTemperature

\* C13: Persistence failure does not roll back or crash: a write of setState
\* that redis rejects never ends the process with an unhandled failure.
C13_PersistenceFailure ==
    ~(phase = "crashed" /\ fault = "setState")

\* C14: LastOff is monotonic: in a step that is neither the startup load nor
\* the start of a new process, state.LastOff changes only in an evaluation
\* that writes a high pin LOW, then to the instant of that evaluation, and
\* never to an earlier instant.
C14_LastOffMonotonic ==
    [][ (/\ state'.LastOff # state.LastOff
         /\ ~(ev'.ran /\ ev'.by = "load")
         /\ ~(phase' = "connecting" /\ state' = DefaultState /\ ~ev'.ran))
        => /\ ev'.ran /\ ev'.pin = 1 /\ ev'.cmd = "LOW"
           /\ state'.LastOff = MomentToString(ev'.at)
           /\ MomentParse(state'.LastOff) >= MomentParse(state.LastOff)
      ]_vars

\* an evaluation outside the startup load deactivated and moved a LastOff
\* written by an earlier deactivation forward
C14_Witness ==
    /\ Deactivated /\ ev.by # "load"
    /\ ev.lastOff # DefaultLastOff
    /\ state.LastOff = MomentToString(ev.at)
    /\ MomentParse(state.LastOff) > MomentParse(ev.lastOff)

\* C15: Ticks do not overlap: at most one remote request of the ticks is
\* outstanding at any time.
C15_TicksDoNotOverlap ==
    remoteQ.catalog + remoteQ.byId <= 1

\* C16: Auth token is re-obtained after expiry: a remote temperature request
\* never carries an expired or absent token; it carries a valid one, obtained
\* through the credential exchange when the cached one had expired or was
\* missing.
C16_TokenReobtained == bearer \in {"none", "valid"}

\* C17: A failed credential exchange is not fatal: once the exchange of a
\* process has failed, nothing is stored as the token, in memory or under the
\* key, and the process keeps running: no exception ends it, in the callback
\* of the exchange or at a later tick or remote request.
C17_FailedExchangeNotFatal ==
    authQ.op = "failed"
    => /\ phase # "crashed"
       /\ authorization = NoToken
       /\ authKey = NoToken

\* C19: The control decision consumes the freshly resolved reading: the
\* current temperature every evaluation compares against TargetTemperature
\* is the reading the callback it runs in has just resolved and handed to
\* updateCharacteristic, whether it came from the local sensor, from the
\* startup load or from the remote service.
C19_DecisionConsumesReading == ev.ran => ev.cur = shown

\* C20: The reported actuator state is derived from mode and pin level: after
\* every control evaluation state.CurrentHeatingCoolingState is Off (0) when
\* the pin is low, Heating (1) when the pin is high and the mode is Heat, and
\* Cooling (2) when the pin is high and the mode is Cool.
C20_ReportedState ==
    ev.ran
    => /\ pin = 0 => state.CurrentHeatingCoolingState = 0
       /\ (pin = 1 /\ ev.mode = 1) => state.CurrentHeatingCoolingState = 1
       /\ (pin = 1 /\ ev.mode = 2) => state.CurrentHeatingCoolingState = 2

\* the activation threshold of Heat is met on the record in memory of a
\* running process
HeatWanted ==
    /\ Alive
    /\ state.TargetHeatingCoolingState = 1
    /\ state.TargetTemperature - ToNumber(state.CurrentTemperature) >= FiveNinths

\* Heat is wanted with the pin low, and the guard permits at the last tick of
\* the model or before
HeatDue ==
    /\ HeatWanted
    /\ pin = 0
    /\ MomentParse(state.LastOff) + FourMinutes <= Horizon

Unrounded == got.by \notin {"none", "setTemperatureDisplayUnits"}

\* the distance between two values
Distance(a, b) == IF a >= b THEN a - b ELSE b - a

\* C21: Fahrenheit unrounding: under Fahrenheit display the value a getter
\* returns for the stored temperature c is, in Fahrenheit, a whole degree,
\* and no whole degree is nearer to c * 1.8 + 32; of two whole degrees
\* equally near the upper is returned.
C21_FahrenheitUnrounding ==
    (Unrounded /\ state.TemperatureDisplayUnits = 1)
    => LET f == got.of + 32 * Fahrenheit
           r == got.value + 32 * Fahrenheit
       IN  /\ r % Fahrenheit = 0
           /\ 2 * Distance(r, f) <= Fahrenheit
           /\ 2 * Distance(r, f) = Fahrenheit => r > f

\* a temperature halfway between two whole degrees Fahrenheit, below zero
\* Fahrenheit, returned as the upper of the two
C21_Witness ==
    /\ got.by = "getCurrentTemperature"
    /\ state.TemperatureDisplayUnits = 1
    /\ got.of + 32 * Fahrenheit < 0
    /\ 2 * (got.value - got.of) = Fahrenheit

\* C22: Celsius unrounding: under Celsius display the value a getter returns
\* is a multiple of 0.5 degree Celsius.
C22_CelsiusUnrounding ==
    (Unrounded /\ state.TemperatureDisplayUnits = 0)
    => got.value % (Celsius \div 2) = 0

\* C23: Idempotence of Fahrenheit unrounding: under Fahrenheit display
\* unroundTemperature of the value a getter returned is that value.
C23_FahrenheitIdempotent ==
    (Unrounded /\ state.TemperatureDisplayUnits = 1)
    => unroundTemperature(state, got.value) = got.value

\* a stored temperature that is no whole degree Fahrenheit: the value
\* returned differs from it and is returned unchanged the second time
C23_Witness ==
    /\ Unrounded
    /\ state.TemperatureDisplayUnits = 1
    /\ got.value # got.of
    /\ unroundTemperature(state, got.value) = got.value

\* C24: Changing the display unit never touches stored temperatures:
\* setTemperatureDisplayUnits(u) sets state.TemperatureDisplayUnits to u and
\* leaves every other field of the record as it was; the record persisted is
\* that record; the pin is not written and no evaluation runs.
C24_DisplayUnitFrame ==
    [][ (got.by = "none" /\ got'.by = "setTemperatureDisplayUnits")
        => /\ state' = [state EXCEPT !.TemperatureDisplayUnits = got'.of]
           /\ store' = state'
           /\ pin' = pin
           /\ ~ev'.ran
           /\ lastLowWrite' = lastLowWrite
      ]_vars

\* the unit was changed from Celsius to Fahrenheit on a record whose
\* temperatures are not the defaults
C24_Witness ==
    /\ got.by = "setTemperatureDisplayUnits"
    /\ got.of = 1 /\ state.TemperatureDisplayUnits = 1
    /\ state.CurrentTemperature # DefaultTemperature
    /\ state.TargetTemperature # DefaultTemperature
    /\ state.TargetHeatingCoolingState = 1
    /\ store = state

\* the command the branches of the switch give on the values the record e of
\* an evaluation holds
Decision(e) ==
    CASE e.mode = 0 -> OffCommand(e.pin)
      [] e.mode = 1 -> HeatCommand(e.cur, e.tgt, e.pin, e.lastOff, e.at)
      [] e.mode = 2 -> CoolCommand(e.cur, e.tgt, e.pin, e.lastOff, e.at)
      [] OTHER -> DefaultCommand(e.pin)

\* C25: Consistent snapshot in the decision: every evaluation, in whatever
\* callback, reads the mode, both temperatures and LastOff from one version
\* of the record, the one in memory when the listener is called and still
\* there when it returns, reads the pin and the clock of that step, and
\* writes the pin in the same step as the command decided on exactly those
\* values; nothing runs between the reads and the write.
C25_ConsistentSnapshot ==
    [][ ev'.ran
        => /\ ev'.mode = state'.TargetHeatingCoolingState
           /\ ev'.cur = ToNumber(state'.CurrentTemperature)
           /\ ev'.tgt = state'.TargetTemperature
           /\ state'.LastOff \in {ev'.lastOff, MomentToString(now)}
           /\ ev'.pin = pin /\ ev'.at = now /\ now' = now
           /\ ev'.cmd = Decision(ev')
           /\ pin' = IF ev'.cmd = "HIGH" THEN 1
                     ELSE IF ev'.cmd = "LOW" THEN 0 ELSE pin
      ]_vars

\* the evaluation of the startup load activated in Cool on the temperatures
\* of the persisted record, with which the target in memory before the load
\* would not have asked for cooling
C25_Witness ==
    /\ ev.ran /\ ev.by = "load" /\ ev.mode = 2 /\ ev.pin = 0
    /\ ev.cur - ev.tgt >= FiveNinths
    /\ ev.cur < DefaultTemperature
    /\ ev.cmd = "HIGH" /\ pin = 1
    /\ state.TargetTemperature = ev.tgt

\* C26: Identity resolution is cached: in a step of a running process that
\* finds uniqueId set, uniqueId stays as it is; a tick of a process that
\* knows the id sends one request by id and none for the catalog, and a tick
\* of a process that does not sends one for the catalog.
C26_IdentityCached ==
    [][ \/ Restart
        \/ /\ uniqueId # NoId => uniqueId' = uniqueId
           /\ (Tick /\ phase' # "crashed")
              => remoteQ' = IF uniqueId # NoId
                            THEN [catalog |-> remoteQ.catalog,
                                  byId |-> remoteQ.byId + 1]
                            ELSE [catalog |-> remoteQ.catalog + 1,
                                  byId |-> remoteQ.byId]
      ]_vars

\* a tick of a process that knows the id, the answer to its catalog request
\* delivered: one request by id outstanding and none for the catalog
C26_Witness ==
    /\ uniqueId = SensorId
    /\ timer = now /\ now >= FourMinutes
    /\ remoteQ = [catalog |-> 0, byId |-> 1]
    /\ phase = "running"

\* C27: No redundant command inside the hysteresis band: an evaluation in
\* Heat with the pin high and currentTemp - targetTemp < 3 * 5/9 writes the
\* pin neither HIGH nor LOW, whatever targetTemp - currentTemp and LastOff
\* are; so does one in Cool with the pin high and
\* targetTemp - currentTemp < 2 * 5/9.
C27_NoRedundantCommand ==
    /\ (ev.ran /\ ev.mode = 1 /\ ev.pin = 1 /\ ev.cur - ev.tgt < 3 * FiveNinths)
       => ev.cmd = "none"
    /\ (ev.ran /\ ev.mode = 2 /\ ev.pin = 1 /\ ev.tgt - ev.cur < 2 * FiveNinths)
       => ev.cmd = "none"

\* C28: First run is never blocked: an evaluation that reads the default
\* LastOff finds compressorDelay() false at whatever instant it runs, and
\* with the pin low and the activation threshold of its mode met it writes
\* the pin HIGH.
C28_FirstRunNotBlocked ==
    (ev.ran /\ ev.lastOff = DefaultLastOff)
    => /\ ~compressorDelay(ev.lastOff, ev.at)
       /\ (ev.pin = 0 /\ WantsOn) => (ev.cmd = "HIGH" /\ pin = 1)

\* the first tick of a process, one minute after its start, nothing ever
\* written LOW: Heat activated on the default LastOff
C28_Witness ==
    /\ ev.ran /\ ev.by = "tick" /\ ev.lastOff = DefaultLastOff
    /\ lastLowWrite = <<>>
    /\ ev.at = Minute
    /\ ev.mode = 1 /\ ev.pin = 0 /\ WantsOn
    /\ ev.cmd = "HIGH" /\ pin = 1

\* C29: Token caching in the store: the token a credential exchange obtained
\* is kept in memory and written under the key with a time-to-live of its
\* expires_in; the read at startup finds the value while that time has not
\* run out and nothing once it has; a value found is adopted with no
\* exchange, and an exchange is started only by a read that found nothing.
C29_TokenCaching ==
    [][ /\ (AuthPostReply /\ authorization'.kind = "token")
           => /\ authorization'.expires = now + TokenLife
              /\ authKey' = authorization'
        /\ Connect
           => authQ'.value = IF authKey.kind = "token" /\ now >= authKey.expires
                             THEN NoToken ELSE authKey
        /\ AuthGetReply
           => IF authQ.value = NoToken
              THEN authQ'.op = "post" /\ authorization' = authorization
              ELSE authQ'.op = "none" /\ authorization' = authQ.value
        /\ (authQ'.op = "post" /\ authQ.op # "post")
           => (authQ.op = "get" /\ authQ.value = NoToken)
      ]_vars

\* a process that has sent no request yet holds the token an earlier process
\* obtained, taken from the key, with no exchange outstanding
C29_Witness ==
    /\ authorization.kind = "token"
    /\ authKey = authorization
    /\ authQ = NoAuthIO
    /\ bearer = "none"
    /\ authorization.expires - TokenLife < timer
    /\ now < authorization.expires

\* C30: Startup load does not lose a newer setter value: when the startup
\* load merges the persisted record, every field a setter of this process set
\* before keeps in memory the value the setter gave it.
C30_LoadKeepsSetterValue ==
    [][ (getState /\ reply.rec # NoRecord)
        => \A f \in touched : state'[f] = state[f]
      ]_vars

\* the mode of a running process is Off
OffWanted ==
    /\ Alive
    /\ state.TargetHeatingCoolingState = 0

\* the mode is Off with the pin high, and a tick of the model is still to
\* come
OffDue ==
    /\ OffWanted
    /\ pin = 1
    /\ remoteQ.catalog + remoteQ.byId < MaxRemote
    /\ timer + Minute <= Horizon

C32_TargetGetter ==
    /\ [][ (got.by = "none" /\ got'.by = "getTargetTemperature")
           => /\ got'.of = IF state.TargetHeatingCoolingState = 0
                           THEN state.CurrentTemperature
                           ELSE state.TargetTemperature
              /\ got'.value = unroundTemperature(state, got'.of)
              /\ state' = state /\ store' = store
              /\ pin' = pin /\ lastLowWrite' = lastLowWrite
              /\ ev' = ev
         ]_vars
    /\ [][state'.TargetTemperature = state.TargetTemperature]_vars

\* the target was asked for in mode Off after the mode was set and a tick
\* evaluated in Off: the answer is the current temperature, in whole degrees
\* Fahrenheit, and the record still holds the target, which differs from it
C32_Witness ==
    /\ got.by = "getTargetTemperature"
    /\ state.TargetHeatingCoolingState = 0
    /\ ev.ran /\ ev.mode = 0 /\ ev.cmd = "LOW"
    /\ state.TemperatureDisplayUnits = 1
    /\ got.of = state.CurrentTemperature
    /\ got.value # got.of
    /\ state.TargetTemperature = Setpoint
    /\ state.TargetTemperature # state.CurrentTemperature
    /\ store = state

\* no write of a living process is on its way to the store: the writes on
\* the open connection are applied as they are issued, those issued before
\* the connection opened wait in the queue of the client
NoWritePending == Alive /\ storeQ = NoRecord

\* C33 as stated: whenever no write is pending the record under the 'State'
\* key equals the record in memory.
C33_StoreEqualsMemoryAlways ==
    NoWritePending => store = state

\* C33: The persisted record converges to the in-memory state: no write
\* failing, whenever no write is pending the record under the 'State' key
\* equals the record in memory, LastOff after a deactivation included, once
\* the process has merged anything: until then the memory holds the defaults
\* of the constructor, which nothing has written.  (The record in memory
\* changes by a merge only, so one that differs from the defaults was merged
\* and written.)
C33_StoreConverges ==
    NoWritePending => (store = state \/ state = DefaultState)

\* a tick deactivated: the record persisted holds the LastOff of that
\* instant and the level read back, as the record in memory does
C33_Witness ==
    /\ NoWritePending
    /\ Deactivated /\ ev.by = "tick"
    /\ state.LastOff = MomentToString(now)
    /\ state.LastOff # ev.lastOff
    /\ state.CurrentHeatingCoolingState = 0
    /\ store = state

\* C34: In the AccessoryPlugin variant the compressor guard also survives a
\* restart: no evaluation activates less than 4 minutes after the instant
\* the pin was last written LOW, whatever process wrote it.
C34_PluginGuardSurvivesRestart ==
    (Activated /\ lastLowWrite # <<>>)
    => ev.at - lastLowWrite[1] >= FourMinutes
====
